---- MODULE Spec2Model ----
(***************************************************************************)
(* A model of the two-pass assembler: macro expansion (macro.c), the first *)
(* pass (first_pass.c), the second pass (second_pass.c) and the per-file   *)
(* driver process_file (assembler.c).                                      *)
(*                                                                         *)
(* A source line is modelled by its tokens: an optional label, the command *)
(* word and the list of operand tokens and commas that follow it.  The     *)
(* operand tokens are classified the way get_operand_mode, the .data       *)
(* number check and parse_matrix_dimensions classify their text.           *)
(***************************************************************************)
EXTENDS Integers, Sequences, FiniteSets, TLC

VARIABLES
    src,            \* the .as file: a sequence of source lines
    pc,             \* position of process_file in the pipeline
    am,             \* the .am file written by expand_macros
    macro_failed,   \* expand_macros returned through one of its error paths
    table,          \* label_table: list of label_node, head first
    IC, DC,         \* counters of first_pass_on_table
    line_number,    \* line_number of the pass that is running (1-based)
    has_errors,     \* has_errors of the pass that is running
    ic_final, dc_final, \* the counters first_pass_on_table hands to process_file
    fp_trace,       \* (IC, DC) held by the first pass before each line of am
    current_ic,     \* current_ic of second_pass
    instructions,   \* image->instructions[0 .. instruction_index-1]
    data,           \* image->data[0 .. data_index-1]
    ext_list,       \* ext_ref list, head first
    sp_trace,       \* current_ic held by the second pass before each line of am
    ob_file,        \* the .ob file: <<>> when not written
    ent_file,       \* the .ent file: its lines; written flag in files_written
    ext_file,       \* the .ext file: its lines
    files_written,  \* which of "ob", "ent", "ext" have been created
    result          \* what process_file returns: "NONE" until it returns

vars == <<src, pc, am, macro_failed, table, IC, DC, line_number, has_errors,
          ic_final, dc_final, fp_trace, current_ic, instructions, data,
          ext_list, sp_trace, ob_file, ent_file, ext_file, files_written,
          result>>

-----------------------------------------------------------------------------
(* Program constants *)

INITIAL_IC == 100
INITIAL_DC == 0
INITIAL_LINE_NUMBER == 1
MAX_LINE_LENGTH == 81
MAX_MACRO_BODY == 1000

IMMEDIATE == 1
DIRECT == 2
MATRIX_ACCESS == 4
REGISTER == 8

MODE_IMMEDIATE == 0
MODE_DIRECT == 1
MODE_MATRIX == 2
MODE_REGISTER == 3

ARE_ABSOLUTE == 0
ARE_EXTERNAL == 1
ARE_RELOCATABLE == 2

NO_OPERANDS == 0
SINGLE_OPERAND == 1
DOUBLE_OPERAND == 2

EIGHT_BIT_MASK == 255
TEN_BIT_MASK == 1023
BASE4_RADIX == 4

EXAMPLE_LABEL_LENGTH == "LENGTH"
EXAMPLE_LABEL_LOOP == "LOOP"

(* Bounds of the model *)
MaxLines == 3

-----------------------------------------------------------------------------
(* Operand tokens.  t is the shape of the text:                            *)
(*   imm  "#v"          reg  "r<r1>"        sym  a label-like word          *)
(*   mat  "name[r<r1>][r<r2>]"              num  a signed decimal "v"       *)
(*   str  a quoted string of v characters   dims "[r1][r2]"                *)
(*   empty  the empty text left by a leading comma     comma  ","          *)

Tok(t, name, v, r1, r2) == [t |-> t, name |-> name, v |-> v, r1 |-> r1, r2 |-> r2]
Imm(v)        == Tok("imm", "", v, 0, 0)
Reg(r)        == Tok("reg", "", 0, r, 0)
Sym(n)        == Tok("sym", n, 0, 0, 0)
Mat(n, a, b)  == Tok("mat", n, 0, a, b)
Num(v)        == Tok("num", "", v, 0, 0)
Str(k)        == Tok("str", "", k, 0, 0)
Dims(r, c)    == Tok("dims", "", 0, r, c)
Empty         == Tok("empty", "", 0, 0, 0)
Comma         == Tok("comma", "", 0, 0, 0)

(* Source lines.  kind is                                                  *)
(*   stmt    [label:] command tokens     bad   a line parse_line rejects   *)
(*   blank   empty or comment line       word  a line holding one word     *)
(*   mcro    "mcro name"                 mcroend  "mcroend"                *)
(* len is the number of characters before the newline.                     *)

Line(kind, label, command, tokens, name, len) ==
    [kind |-> kind, label |-> label, command |-> command, tokens |-> tokens,
     name |-> name, len |-> len]
Stmt(label, command, tokens) == Line("stmt", label, command, tokens, "", 20)
Bad       == Line("bad", "", "", <<>>, "", 20)
Blank     == Line("blank", "", "", <<>>, "", 0)
Word(n)   == Line("word", "", "", <<>>, n, 2)
Mcro(n)   == Line("mcro", "", "", <<>>, n, 7)
McroEnd   == Line("mcroend", "", "", <<>>, "", 7)
LongLine  == Line("stmt", "", "stop", <<>>, "", MAX_LINE_LENGTH)

-----------------------------------------------------------------------------
(* parser.c *)

\* extract_operands: the operand strings of a line; null when there is no
\* operand or a comma is followed by a comma or by the end of the line.
RECURSIVE ExtractLoop(_, _)
ExtractLoop(tokens, acc) ==
    IF tokens = <<>> THEN [null |-> FALSE, ops |-> acc]
    ELSE LET first == Head(tokens)
             operand == IF first.t = "comma" THEN Empty ELSE first
             rest == IF first.t = "comma" THEN tokens ELSE Tail(tokens)
         IN  IF rest # <<>> /\ Head(rest).t = "comma"
             THEN IF Tail(rest) = <<>> \/ Head(Tail(rest)).t = "comma"
                  THEN [null |-> TRUE, ops |-> <<>>]
                  ELSE ExtractLoop(Tail(rest), Append(acc, operand))
             ELSE ExtractLoop(rest, Append(acc, operand))

extract_operands(tokens) ==
    IF tokens = <<>> THEN [null |-> TRUE, ops |-> <<>>]
    ELSE ExtractLoop(tokens, <<>>)

\* parse_line: the separate_line of a line (null: parse_line returned NULL).
\* When extract_operands returns NULL the line is kept with
\* how_many_operands = 0.  command = "" stands for a NULL command.
parse_line(line) ==
    IF line.kind # "stmt"
    THEN [null |-> TRUE, label |-> "", command |-> "", operands |-> <<>>]
    ELSE [null |-> FALSE,
          label |-> line.label,
          command |-> line.command,
          operands |-> extract_operands(line.tokens).ops]

-----------------------------------------------------------------------------
(* utils.c, commands.c *)

\* The text of an operand token as a label name: the name of a label-like
\* word, NotALabel for any text is_valid_label rejects.
NotALabel == "?"
OperandName(op) == IF op.t = "sym" THEN op.name ELSE NotALabel

\* is_valid_label
is_valid_label(name) == name # NotALabel /\ name # ""

\* the .data / .mat check of first_pass.c: optional sign, then digits only
is_number_operand(op) == op.t = "num"

\* get_operand_mode: the addressing-mode bit of an operand, 0 (FAILURE) when
\* the text is no operand.  A quoted string is classified IMMEDIATE.
get_operand_mode(op) ==
    CASE op.t = "str" -> IMMEDIATE
      [] op.t = "reg" -> REGISTER
      [] op.t = "imm" -> IMMEDIATE
      [] op.t = "mat" -> MATRIX_ACCESS
      [] op.t = "sym" -> DIRECT
      [] OTHER -> 0

\* instruction_table: opcode, operand count, permitted source and destination
\* modes (the bit masks, as sets of mode bits)
AllModes == {IMMEDIATE, DIRECT, MATRIX_ACCESS, REGISTER}
NoImm == {DIRECT, MATRIX_ACCESS, REGISTER}
Inst(opcode, n, s, d) ==
    [opcode |-> opcode, num_of_operands |-> n, source_mode |-> s, destination_mode |-> d]
instruction_table ==
    [mov  |-> Inst(0, DOUBLE_OPERAND, AllModes, NoImm),
     cmp  |-> Inst(1, DOUBLE_OPERAND, AllModes, AllModes),
     add  |-> Inst(2, DOUBLE_OPERAND, AllModes, NoImm),
     sub  |-> Inst(3, DOUBLE_OPERAND, AllModes, NoImm),
     lea  |-> Inst(4, DOUBLE_OPERAND, {DIRECT, MATRIX_ACCESS}, {REGISTER}),
     clr  |-> Inst(5, SINGLE_OPERAND, {}, NoImm),
     not  |-> Inst(6, SINGLE_OPERAND, {}, NoImm),
     inc  |-> Inst(7, SINGLE_OPERAND, {}, NoImm),
     dec  |-> Inst(8, SINGLE_OPERAND, {}, NoImm),
     jmp  |-> Inst(9, SINGLE_OPERAND, {}, {DIRECT, MATRIX_ACCESS}),
     bne  |-> Inst(10, SINGLE_OPERAND, {}, {DIRECT, MATRIX_ACCESS}),
     jsr  |-> Inst(11, SINGLE_OPERAND, {}, {DIRECT, MATRIX_ACCESS}),
     red  |-> Inst(12, SINGLE_OPERAND, {}, NoImm),
     prn  |-> Inst(13, SINGLE_OPERAND, {}, AllModes),
     rts  |-> Inst(14, NO_OPERANDS, {}, {}),
     stop |-> Inst(15, NO_OPERANDS, {}, {})]

is_valid_opcode(name) == name \in DOMAIN instruction_table
Directives == {".data", ".string", ".mat", ".extern", ".entry"}
is_valid_directive(name) == name \in Directives

\* get_instruction: only called on the command of a parsed line
get_instruction(name) == instruction_table[name]

\* get_operand_mode(parts->operands[i]): FAILURE when the slot is NULL
OperandMode(parts, i) ==
    IF i <= Len(parts.operands) THEN get_operand_mode(parts.operands[i]) ELSE 0

-----------------------------------------------------------------------------
(* labelTable.c *)

Node(name, address, type, is_defined) ==
    [name |-> name, address |-> address, type |-> type, is_defined |-> is_defined]

\* A faulty find_label: only the head of the list is compared.
\* C12_UniqueNames fails under it.
find_label_head_only(t, name) ==
    IF t # <<>> /\ t[1].name = name THEN 1 ELSE 0

\* find_label: index of the first node with this name, 0 when there is none
find_label(t, name) ==
    IF \E i \in 1..Len(t) : t[i].name = name
    THEN CHOOSE i \in 1..Len(t) : t[i].name = name /\ \A j \in 1..(i-1) : t[j].name # name
    ELSE 0

\* add_label: a new undefined node at the head; fails on an invalid or a
\* duplicate name
add_label(t, name, address, type) ==
    IF ~is_valid_label(name) \/ find_label(t, name) # 0
    THEN [ok |-> FALSE, table |-> t]
    ELSE [ok |-> TRUE, table |-> <<Node(name, address, type, FALSE)>> \o t]

\* mark_label_defined
mark_label_defined(t, name) ==
    LET i == find_label(t, name)
    IN  IF i = 0 \/ t[i].is_defined
        THEN [ok |-> FALSE, table |-> t]
        ELSE [ok |-> TRUE, table |-> [t EXCEPT ![i].is_defined = TRUE]]

-----------------------------------------------------------------------------
(* first_pass.c *)

\* parse_matrix_dimensions: "[R][C]" with R > 0 and C > 0
parse_matrix_dimensions(op) == op.t = "dims" /\ op.r1 > 0 /\ op.r2 > 0

\* A faulty estimate_ic_words: two register operands are counted as one extra
\* word each instead of sharing one.  C5_ImageCounts fails under it.
estimate_ic_words_unshared(parts) ==
    IF parts.command = "" THEN 0
    ELSE LET inst == get_instruction(parts.command)
         IN  IF inst.num_of_operands = 0 THEN 1
             ELSE IF inst.num_of_operands = 1
             THEN LET dst_mode == OperandMode(parts, 1)
                  IN  IF dst_mode = 0 THEN 0
                      ELSE IF dst_mode = MATRIX_ACCESS THEN 1 + 2 ELSE 1 + 1
             ELSE LET src_mode == OperandMode(parts, 1)
                      dst_mode == OperandMode(parts, 2)
                  IN  IF src_mode = 0 \/ dst_mode = 0 THEN 0
                      ELSE 1 + (IF src_mode = MATRIX_ACCESS THEN 2 ELSE 1)
                             + (IF dst_mode = MATRIX_ACCESS THEN 2 ELSE 1)

\* A faulty estimate_ic_words: a direct operand is counted as two words.
\* C28_CountersAgree fails under it.
estimate_ic_words_direct_two(parts) ==
    IF parts.command = "" THEN 0
    ELSE LET inst == get_instruction(parts.command)
         IN  IF inst.num_of_operands = 0 THEN 1
             ELSE IF inst.num_of_operands = 1
             THEN LET dst_mode == OperandMode(parts, 1)
                  IN  IF dst_mode = 0 THEN 0
                      ELSE IF dst_mode \in {MATRIX_ACCESS, DIRECT} THEN 1 + 2 ELSE 1 + 1
             ELSE LET src_mode == OperandMode(parts, 1)
                      dst_mode == OperandMode(parts, 2)
                  IN  IF src_mode = 0 \/ dst_mode = 0 THEN 0
                      ELSE IF src_mode = REGISTER /\ dst_mode = REGISTER THEN 1 + 1
                      ELSE 1 + (IF src_mode \in {MATRIX_ACCESS, DIRECT} THEN 2 ELSE 1)
                             + (IF dst_mode \in {MATRIX_ACCESS, DIRECT} THEN 2 ELSE 1)

\* A faulty estimate_ic_words: a matrix operand is counted as one word.
\* C24_WordsAdded fails under it.
estimate_ic_words_flat_matrix(parts) ==
    IF parts.command = "" THEN 0
    ELSE LET inst == get_instruction(parts.command)
         IN  IF inst.num_of_operands = 0 THEN 1
             ELSE IF inst.num_of_operands = 1
             THEN IF OperandMode(parts, 1) = 0 THEN 0 ELSE 1 + 1
             ELSE IF OperandMode(parts, 1) = 0 \/ OperandMode(parts, 2) = 0 THEN 0
             ELSE IF OperandMode(parts, 1) = REGISTER /\ OperandMode(parts, 2) = REGISTER
             THEN 1 + 1
             ELSE 1 + 1 + 1

\* A faulty estimate_ic_words: a register destination shares a word with any
\* source operand, not only with a register.  C18_ScenarioB fails under it.
estimate_ic_words_register_shares(parts) ==
    IF parts.command = "" THEN 0
    ELSE LET inst == get_instruction(parts.command)
         IN  IF inst.num_of_operands = 0 THEN 1
             ELSE IF inst.num_of_operands = 1
             THEN LET dst_mode == OperandMode(parts, 1)
                  IN  IF dst_mode = 0 THEN 0
                      ELSE IF dst_mode = MATRIX_ACCESS THEN 1 + 2 ELSE 1 + 1
             ELSE LET src_mode == OperandMode(parts, 1)
                      dst_mode == OperandMode(parts, 2)
                  IN  IF src_mode = 0 \/ dst_mode = 0 THEN 0
                      ELSE IF dst_mode = REGISTER
                      THEN 1 + (IF src_mode = MATRIX_ACCESS THEN 2 ELSE 1)
                      ELSE 1 + (IF src_mode = MATRIX_ACCESS THEN 2 ELSE 1)
                             + (IF dst_mode = MATRIX_ACCESS THEN 2 ELSE 1)

\* estimate_ic_words: the words an instruction consumes, 0 on error
estimate_ic_words(parts) ==
    IF parts.command = "" THEN 0
    ELSE LET inst == get_instruction(parts.command)
         IN  IF inst.num_of_operands = 0 THEN 1
             ELSE IF inst.num_of_operands = 1
             THEN LET dst_mode == OperandMode(parts, 1)
                  IN  IF dst_mode = 0 THEN 0
                      ELSE IF dst_mode = MATRIX_ACCESS THEN 1 + 2 ELSE 1 + 1
             ELSE LET src_mode == OperandMode(parts, 1)
                      dst_mode == OperandMode(parts, 2)
                  IN  IF src_mode = 0 \/ dst_mode = 0 THEN 0
                      ELSE IF src_mode = REGISTER /\ dst_mode = REGISTER THEN 1 + 1
                      ELSE 1 + (IF src_mode = MATRIX_ACCESS THEN 2 ELSE 1)
                             + (IF dst_mode = MATRIX_ACCESS THEN 2 ELSE 1)

\* A faulty define_label: a node that is already defined is updated like an
\* undefined one.  C11_DuplicateLabelFails fails under it.
define_label_redefine(t, name, address, type) ==
    LET i == find_label(t, name)
    IN  IF i # 0
        THEN [ok |-> TRUE,
              table |-> [t EXCEPT ![i] =
                  Node(name, address,
                       IF t[i].type # "ENTRY" THEN type ELSE t[i].type,
                       TRUE)]]
        ELSE LET added == add_label(t, name, address, type)
             IN  IF added.ok
                 THEN mark_label_defined(added.table, name)
                 ELSE [ok |-> FALSE, table |-> t]

\* A faulty define_label: the node of a declared name keeps its kind when
\* the name is defined.  C27_ExternalShape fails under it.
define_label_keep_kind(t, name, address, type) ==
    LET i == find_label(t, name)
    IN  IF i # 0
        THEN IF t[i].is_defined
             THEN [ok |-> FALSE, table |-> t]
             ELSE [ok |-> TRUE,
                   table |-> [t EXCEPT ![i] = Node(name, address, t[i].type, TRUE)]]
        ELSE LET added == add_label(t, name, address, type)
             IN  IF added.ok
                 THEN mark_label_defined(added.table, name)
                 ELSE [ok |-> FALSE, table |-> t]

\* define_label: define name at address; an undefined node of the name is
\* updated in place and keeps the type LABEL_ENTRY
define_label(t, name, address, type) ==
    LET i == find_label(t, name)
    IN  IF i # 0
        THEN IF t[i].is_defined
             THEN [ok |-> FALSE, table |-> t]
             ELSE [ok |-> TRUE,
                   table |-> [t EXCEPT ![i] =
                       Node(name, address,
                            IF t[i].type # "ENTRY" THEN type ELSE t[i].type,
                            TRUE)]]
        ELSE LET added == add_label(t, name, address, type)
             IN  IF added.ok
                 THEN mark_label_defined(added.table, name)
                 ELSE [ok |-> FALSE, table |-> t]

\* the .extern loop of process_line: stops at the first name that is already
\* defined, keeping the names added before it
RECURSIVE ExternLoop(_, _)
ExternLoop(t, ops) ==
    IF ops = <<>> THEN [ok |-> TRUE, table |-> t]
    ELSE LET name == OperandName(Head(ops))
             ex == find_label(t, name)
         IN  IF ex # 0 /\ t[ex].is_defined
             THEN [ok |-> FALSE, table |-> t]
             ELSE ExternLoop(IF ex = 0 THEN add_label(t, name, 0, "EXTERNAL").table ELSE t,
                             Tail(ops))

\* the .entry loop of process_line
RECURSIVE EntryLoop(_, _)
EntryLoop(t, ops) ==
    IF ops = <<>> THEN t
    ELSE LET name == OperandName(Head(ops))
             en == find_label(t, name)
             marked ==
                 IF en = 0 THEN add_label(t, name, 0, "ENTRY").table
                 ELSE IF t[en].is_defined /\ t[en].type = "DATA" THEN t
                 ELSE [t EXCEPT ![en].type = "ENTRY"]
         IN  EntryLoop(marked, Tail(ops))

Outcome(ok, t, ic, dc) == [ok |-> ok, table |-> t, IC |-> ic, DC |-> dc]

\* the tail shared by the .data, .string and .mat branches: define the label
\* at DC, then advance DC
DefineData(parts, t, ic, dc, count) ==
    LET def == IF parts.label # ""
               THEN define_label(t, parts.label, dc, "DATA")
               ELSE [ok |-> TRUE, table |-> t]
    IN  IF def.ok THEN Outcome(TRUE, def.table, ic, dc + count)
        ELSE Outcome(FALSE, t, ic, dc)

\* A faulty instruction branch: the label is defined after IC has advanced.
\* C7_CodeSymbolRange fails under it.
ProcessInstruction_define_after(parts, t, ic, dc) ==
    LET words == estimate_ic_words(parts)
        def == IF parts.label # ""
               THEN define_label(t, parts.label, ic + words, "CODE")
               ELSE [ok |-> TRUE, table |-> t]
    IN  IF words = 0 THEN Outcome(FALSE, t, ic, dc)
        ELSE IF ~def.ok THEN Outcome(FALSE, t, ic, dc)
        ELSE Outcome(TRUE, def.table, ic + words, dc)

\* the instruction branch of process_line
ProcessInstruction(parts, t, ic, dc) ==
    LET words == estimate_ic_words(parts)
        def == IF parts.label # ""
               THEN define_label(t, parts.label, ic, "CODE")
               ELSE [ok |-> TRUE, table |-> t]
    IN  IF words = 0 THEN Outcome(FALSE, t, ic, dc)
        ELSE IF ~def.ok THEN Outcome(FALSE, t, ic, dc)
        ELSE Outcome(TRUE, def.table, ic + words, dc)

\* process_line: one line of the first pass
process_line(line, t, ic, dc) ==
    IF line.kind = "blank" THEN Outcome(TRUE, t, ic, dc)
    ELSE LET parts == parse_line(line)
             ops == parts.operands
             n == Len(ops)
         IN
         IF parts.null THEN Outcome(FALSE, t, ic, dc)
         ELSE IF parts.command = ".data"
         THEN IF \E i \in 1..n : ~is_number_operand(ops[i])
              THEN Outcome(FALSE, t, ic, dc)
              ELSE DefineData(parts, t, ic, dc, n)
         ELSE IF parts.command = ".string"
         THEN IF n # 1 \/ ops[1].t # "str"
              THEN Outcome(FALSE, t, ic, dc)
              ELSE DefineData(parts, t, ic, dc, ops[1].v + 1)
         ELSE IF parts.command = ".mat"
         THEN IF n < 1 \/ ~parse_matrix_dimensions(ops[1])
              THEN Outcome(FALSE, t, ic, dc)
              ELSE LET total_elements == ops[1].r1 * ops[1].r2
                       values_provided == n - 1
                   IN  IF \E i \in 2..n : ~is_number_operand(ops[i])
                       THEN Outcome(FALSE, t, ic, dc)
                       ELSE IF values_provided # 0 /\ values_provided # total_elements
                       THEN Outcome(FALSE, t, ic, dc)
                       ELSE DefineData(parts, t, ic, dc, total_elements)
         ELSE IF parts.command = ".extern"
         THEN LET r == ExternLoop(t, ops) IN Outcome(r.ok, r.table, ic, dc)
         ELSE IF parts.command = ".entry"
         THEN Outcome(TRUE, EntryLoop(t, ops), ic, dc)
         ELSE ProcessInstruction(parts, t, ic, dc)

\* the line-length check of the three readers: fgets keeps MAX_LINE_LENGTH - 1
\* characters and the line is refused when they hold no newline
TooLong(line) == line.len >= MAX_LINE_LENGTH - 1

\* A faulty rebasing loop: every defined symbol is moved, whatever its kind.
\* C26_RebasingFrame fails under it.
Rebase_every_defined(t, ic) ==
    [i \in 1..Len(t) |->
        IF t[i].is_defined
        THEN [t[i] EXCEPT !.address = t[i].address + ic]
        ELSE t[i]]

\* the rebasing loop at the end of first_pass_on_table
Rebase(t, ic) ==
    [i \in 1..Len(t) |->
        IF t[i].type = "DATA" /\ t[i].is_defined
        THEN [t[i] EXCEPT !.address = t[i].address + ic]
        ELSE t[i]]

-----------------------------------------------------------------------------
(* macro.c *)

\* find_macro: index of the first macro with this name, 0 when there is none
find_macro(macro_list, name) ==
    IF \E i \in 1..Len(macro_list) : macro_list[i].name = name
    THEN CHOOSE i \in 1..Len(macro_list) :
            macro_list[i].name = name /\ \A j \in 1..(i-1) : macro_list[j].name # name
    ELSE 0

\* check_if_macro_start / check_if_macro_end
check_if_macro_start(line) == line.kind = "mcro"
check_if_macro_end(line) == line.kind = "mcroend"

\* validate_macro_name after check_if_macro_start accepted the line: the name
\* must not be a macro already
validate_macro_name(name, macro_list) == find_macro(macro_list, name) = 0

\* the first word of a line, as is_macro_call reads it: only a line that holds
\* a bare word can name a macro (a macro name is no opcode and has no ':' or '.')
FirstWord(line) == IF line.kind = "word" THEN line.name ELSE ""
is_macro_call(line, macro_list) == find_macro(macro_list, FirstWord(line)) # 0

\* strlen of a line as fgets returns it: its characters and the newline
StrLen(line) == line.len + 1

\* the collection loop of expand_macros.  st is (macro_list, in_macro_definition,
\* current_macro_name, current_macro_content, content_length, line_number);
\* line_number counts the lines fgets has handed to the loop.
RECURSIVE CollectLoop(_, _)
CollectLoop(lines, st) ==
    IF lines = <<>>
    THEN [failed |-> st.in_def, macro_list |-> st.macro_list,
          line_number |-> st.line_number]
    ELSE LET line == Head(lines)
             now == [st EXCEPT !.line_number = st.line_number + 1]
             return == [failed |-> TRUE, macro_list |-> <<>>,
                        line_number |-> now.line_number]
         IN
         IF TooLong(line) THEN return
         ELSE IF check_if_macro_start(line)
         THEN IF ~validate_macro_name(line.name, now.macro_list)
              THEN return
              ELSE CollectLoop(Tail(lines),
                     [now EXCEPT !.in_def = TRUE, !.name = line.name,
                                 !.content = <<>>, !.content_length = 0])
         ELSE IF check_if_macro_end(line)
         THEN IF now.in_def
              THEN CollectLoop(Tail(lines),
                     [now EXCEPT !.in_def = FALSE,
                                 !.macro_list = <<[name |-> now.name, content |-> now.content]>>
                                                \o now.macro_list])
              ELSE CollectLoop(Tail(lines), now)
         ELSE IF now.in_def /\ now.content_length + StrLen(line) < MAX_MACRO_BODY - 1
         THEN CollectLoop(Tail(lines),
                [now EXCEPT !.content = Append(now.content, line),
                            !.content_length = now.content_length + StrLen(line)])
         ELSE CollectLoop(Tail(lines), now)

\* the emission loop of expand_macros: the lines written to the output file
RECURSIVE EmitLoop(_, _, _, _)
EmitLoop(lines, macro_list, in_def, out) ==
    IF lines = <<>> THEN out
    ELSE LET line == Head(lines) IN
         IF TooLong(line) THEN out
         ELSE IF check_if_macro_start(line) THEN EmitLoop(Tail(lines), macro_list, TRUE, out)
         ELSE IF check_if_macro_end(line) THEN EmitLoop(Tail(lines), macro_list, FALSE, out)
         ELSE IF in_def THEN EmitLoop(Tail(lines), macro_list, in_def, out)
         ELSE IF is_macro_call(line, macro_list)
         THEN EmitLoop(Tail(lines), macro_list, in_def,
                       out \o macro_list[find_macro(macro_list, FirstWord(line))].content)
         ELSE EmitLoop(Tail(lines), macro_list, in_def, Append(out, line))

\* A faulty emission loop: one walk that knows only the macros committed up
\* to the line it reads, so that a call above its definition is copied.
\* C23_Emission fails under it.
RECURSIVE EmitSingleWalk(_, _, _, _)
EmitSingleWalk(input, i, in_def, out) ==
    IF i > Len(input) THEN out
    ELSE LET line == input[i]
             known == CollectLoop(SubSeq(input, 1, i),
                         [macro_list |-> <<>>, in_def |-> FALSE, name |-> "",
                          content |-> <<>>, content_length |-> 0,
                          line_number |-> 0]).macro_list
         IN
         IF TooLong(line) THEN out
         ELSE IF check_if_macro_start(line) THEN EmitSingleWalk(input, i + 1, TRUE, out)
         ELSE IF check_if_macro_end(line) THEN EmitSingleWalk(input, i + 1, FALSE, out)
         ELSE IF in_def THEN EmitSingleWalk(input, i + 1, in_def, out)
         ELSE IF is_macro_call(line, known)
         THEN EmitSingleWalk(input, i + 1, in_def,
                             out \o known[find_macro(known, FirstWord(line))].content)
         ELSE EmitSingleWalk(input, i + 1, in_def, Append(out, line))

expand_macros_single_walk(input) ==
    LET collected == CollectLoop(input,
                        [macro_list |-> <<>>, in_def |-> FALSE, name |-> "",
                         content |-> <<>>, content_length |-> 0, line_number |-> 0])
    IN  IF collected.failed
        THEN [failed |-> TRUE, output |-> <<>>, line_number |-> collected.line_number]
        ELSE [failed |-> FALSE,
              output |-> EmitSingleWalk(input, 1, FALSE, <<>>),
              line_number |-> collected.line_number]

\* expand_macros: the output file is created empty, and stays empty when the
\* collection loop returns early
expand_macros(input) ==
    LET collected == CollectLoop(input,
                        [macro_list |-> <<>>, in_def |-> FALSE, name |-> "",
                         content |-> <<>>, content_length |-> 0, line_number |-> 0])
    IN  IF collected.failed
        THEN [failed |-> TRUE, output |-> <<>>, line_number |-> collected.line_number]
        ELSE [failed |-> FALSE,
              output |-> EmitLoop(input, collected.macro_list, FALSE, <<>>),
              line_number |-> collected.line_number]

-----------------------------------------------------------------------------
(* second_pass.c *)

\* convert_to_addressing_mode: mode bit to the 2-bit ordinal
convert_to_addressing_mode(mode_mask) ==
    CASE mode_mask = IMMEDIATE -> MODE_IMMEDIATE
      [] mode_mask = DIRECT -> MODE_DIRECT
      [] mode_mask = MATRIX_ACCESS -> MODE_MATRIX
      [] mode_mask = REGISTER -> MODE_REGISTER
      [] OTHER -> MODE_IMMEDIATE

MachineWord(word, are, address) == [word |-> word, are |-> are, address |-> address]

\* create_instruction_word: opcode in bits 6..9, source mode in 4..5,
\* destination mode in 2..3, ARE in 0..1
create_instruction_word(opcode, src_mode, dst_mode, are) ==
    (opcode % 16) * 64 + (src_mode % 4) * 16 + (dst_mode % 4) * 4 + (are % 4)

\* parse_immediate_value: the number after '#', 0 for any other text
parse_immediate_value(op) == IF op.t = "imm" THEN op.v ELSE 0

ExtRef(symbol_name, address) == [symbol_name |-> symbol_name, address |-> address]

\* A faulty add_external_reference: the address of the word before the operand
\* word is recorded.  C13_ExternalWord fails under it.
add_external_reference_before(list, symbol, address) ==
    <<ExtRef(symbol, address - 1)>> \o list

\* A variant of add_external_reference that links the new reference at the
\* tail of the list.  C14_ExternalsNewestFirst fails under it.
add_external_reference_tail(list, symbol, address) ==
    list \o <<ExtRef(symbol, address)>>

\* add_external_reference: a new reference at the head of the list
add_external_reference(list, symbol, address) == <<ExtRef(symbol, address)>> \o list

\* the label word written by encode_operand (MODE_DIRECT) and by
\* encode_matrix_operand (first word): fails when find_label finds nothing
LabelWord(name, t, current_address, list) ==
    LET label == find_label(t, name)
    IN  IF label = 0
        THEN [ok |-> FALSE, words |-> <<>>, ext_list |-> list]
        ELSE IF t[label].type = "EXTERNAL"
        THEN [ok |-> TRUE,
              words |-> <<MachineWord(ARE_EXTERNAL, ARE_EXTERNAL, current_address)>>,
              ext_list |-> add_external_reference(list, name, current_address)]
        ELSE [ok |-> TRUE,
              words |-> <<MachineWord(t[label].address * 4 + ARE_RELOCATABLE,
                                      ARE_RELOCATABLE, current_address)>>,
              ext_list |-> list]

\* encode_operand: the word of an Immediate, Direct or Register operand
encode_operand(op, t, mode, current_address, list) ==
    CASE mode = MODE_IMMEDIATE ->
            [ok |-> TRUE,
             words |-> <<MachineWord((parse_immediate_value(op) % (EIGHT_BIT_MASK + 1)) * 4
                                        + ARE_ABSOLUTE,
                                     ARE_ABSOLUTE, current_address)>>,
             ext_list |-> list]
      [] mode = MODE_DIRECT -> LabelWord(OperandName(op), t, current_address, list)
      [] mode = MODE_REGISTER ->
            [ok |-> TRUE,
             words |-> <<MachineWord((op.r1 % 8) * 4 + ARE_ABSOLUTE,
                                     ARE_ABSOLUTE, current_address)>>,
             ext_list |-> list]
      [] OTHER -> [ok |-> FALSE, words |-> <<>>, ext_list |-> list]

\* encode_matrix_operand: the label word, then the word of the two registers
encode_matrix_operand(op, t, current_address, list) ==
    LET first == LabelWord(op.name, t, current_address, list)
    IN  IF ~first.ok THEN first
        ELSE [first EXCEPT !.words =
                 first.words \o <<MachineWord((op.r1 % 16) * 64 + (op.r2 % 16) * 4,
                                              ARE_ABSOLUTE, current_address + 1)>>]

\* one operand of encode_instruction, by its mode
EncodeByMode(op, t, mode, current_address, list) ==
    IF mode = MODE_MATRIX
    THEN encode_matrix_operand(op, t, current_address, list)
    ELSE encode_operand(op, t, mode, current_address, list)

\* A faulty encode_instruction: the shared register word holds the second
\* register in bits 6..9 and the first in bits 2..5.  C25_PackedRegisters fails
\* under it.
encode_instruction_swapped(parts, t, current_ic_, list) ==
    LET failure == [ok |-> FALSE, words |-> <<>>, ext_list |-> list] IN
    IF parts.command = "" THEN failure
    ELSE
    LET inst == get_instruction(parts.command)
        n == inst.num_of_operands
        dst_mode_mask == IF n >= 1 THEN OperandMode(parts, n) ELSE IMMEDIATE
        src_mode_mask == IF n = 2 THEN OperandMode(parts, 1) ELSE IMMEDIATE
        dst_mode == convert_to_addressing_mode(dst_mode_mask)
        src_mode == convert_to_addressing_mode(src_mode_mask)
        opword == MachineWord(create_instruction_word(inst.opcode,
                                  IF n = 2 THEN src_mode ELSE 0,
                                  IF n >= 1 THEN dst_mode ELSE 0,
                                  ARE_ABSOLUTE),
                              ARE_ABSOLUTE, current_ic_)
    IN  IF dst_mode_mask = 0 \/ src_mode_mask = 0 THEN failure
        ELSE IF n = 0 THEN [ok |-> TRUE, words |-> <<opword>>, ext_list |-> list]
        ELSE IF n = 1
        THEN LET d == EncodeByMode(parts.operands[1], t, dst_mode, current_ic_ + 1, list)
             IN  [d EXCEPT !.words = IF d.ok THEN <<opword>> \o d.words ELSE <<>>]
        ELSE IF src_mode = MODE_REGISTER /\ dst_mode = MODE_REGISTER
        THEN [ok |-> TRUE,
              words |-> <<opword,
                          MachineWord((parts.operands[2].r1 % 16) * 64
                                        + (parts.operands[1].r1 % 16) * 4,
                                      ARE_ABSOLUTE, current_ic_ + 1)>>,
              ext_list |-> list]
        ELSE LET s == EncodeByMode(parts.operands[1], t, src_mode, current_ic_ + 1, list)
                 d == EncodeByMode(parts.operands[2], t, dst_mode,
                                   current_ic_ + 1 + Len(s.words), s.ext_list)
             IN  IF ~s.ok THEN [s EXCEPT !.words = <<>>]
                 ELSE [d EXCEPT !.words = IF d.ok THEN <<opword>> \o s.words \o d.words
                                          ELSE <<>>]

\* encode_instruction: the words of an instruction.  A reference added to the
\* external list stays there when a later operand fails.
encode_instruction(parts, t, current_ic_, list) ==
    LET failure == [ok |-> FALSE, words |-> <<>>, ext_list |-> list] IN
    IF parts.command = "" THEN failure
    ELSE
    LET inst == get_instruction(parts.command)
        n == inst.num_of_operands
        dst_mode_mask == IF n >= 1 THEN OperandMode(parts, n) ELSE IMMEDIATE
        src_mode_mask == IF n = 2 THEN OperandMode(parts, 1) ELSE IMMEDIATE
        dst_mode == convert_to_addressing_mode(dst_mode_mask)
        src_mode == convert_to_addressing_mode(src_mode_mask)
        opword == MachineWord(create_instruction_word(inst.opcode,
                                  IF n = 2 THEN src_mode ELSE 0,
                                  IF n >= 1 THEN dst_mode ELSE 0,
                                  ARE_ABSOLUTE),
                              ARE_ABSOLUTE, current_ic_)
    IN  IF dst_mode_mask = 0 \/ src_mode_mask = 0 THEN failure
        ELSE IF n = 0 THEN [ok |-> TRUE, words |-> <<opword>>, ext_list |-> list]
        ELSE IF n = 1
        THEN LET d == EncodeByMode(parts.operands[1], t, dst_mode, current_ic_ + 1, list)
             IN  [d EXCEPT !.words = IF d.ok THEN <<opword>> \o d.words ELSE <<>>]
        ELSE IF src_mode = MODE_REGISTER /\ dst_mode = MODE_REGISTER
        THEN [ok |-> TRUE,
              words |-> <<opword,
                          MachineWord((parts.operands[1].r1 % 16) * 64
                                        + (parts.operands[2].r1 % 16) * 4,
                                      ARE_ABSOLUTE, current_ic_ + 1)>>,
              ext_list |-> list]
        ELSE LET s == EncodeByMode(parts.operands[1], t, src_mode, current_ic_ + 1, list)
                 d == EncodeByMode(parts.operands[2], t, dst_mode,
                                   current_ic_ + 1 + Len(s.words), s.ext_list)
             IN  IF ~s.ok THEN [s EXCEPT !.words = <<>>]
                 ELSE [d EXCEPT !.words = IF d.ok THEN <<opword>> \o s.words \o d.words
                                          ELSE <<>>]

\* the copy loop of second_pass: words are stored while instruction_index is
\* below image->instruction_count
RECURSIVE CopyWords(_, _, _)
CopyWords(image, words, instruction_count) ==
    IF words = <<>> THEN image
    ELSE CopyWords(IF Len(image) < instruction_count THEN Append(image, Head(words))
                   ELSE image,
                   Tail(words), instruction_count)

\* strtol on a .data / .mat operand: the number, 0 for any other text
strtol(op) == IF op.t = "num" THEN op.v ELSE 0

DataWord(value, data_index) == MachineWord(value % (TEN_BIT_MASK + 1), ARE_ABSOLUTE, data_index)

\* process_data_line: the words a .data, .string or .mat line appends.  The
\* characters of a quoted string are taken to be 'a' (97).
process_data_line(parts, image) ==
    LET ops == parts.operands
        n == Len(ops)
        base == Len(image)
    IN  IF parts.command = ".data"
        THEN [ok |-> TRUE,
              data |-> image \o [i \in 1..n |-> DataWord(strtol(ops[i]), base + i - 1)]]
        ELSE IF parts.command = ".string"
        THEN IF n = 1
             THEN [ok |-> TRUE,
                   data |-> image
                            \o [i \in 1..ops[1].v |-> DataWord(97, base + i - 1)]
                            \o <<DataWord(0, base + ops[1].v)>>]
             ELSE [ok |-> TRUE, data |-> image]
        ELSE IF n < 1 \/ ~parse_matrix_dimensions(ops[1])
        THEN [ok |-> FALSE, data |-> image]
        ELSE [ok |-> TRUE,
              data |-> image \o [i \in 1..(ops[1].r1 * ops[1].r2) |->
                          DataWord(IF i + 1 <= n THEN strtol(ops[i + 1]) ELSE 0,
                                   base + i - 1)]]

-----------------------------------------------------------------------------
(* Base-4 letters (utils.c) and the output files (second_pass.c) *)

Base4Letter(d) == <<"a", "b", "c", "d">>[d + 1]

\* digit i (1 = most significant) of the width-digit base-4 form of word
Base4Digits(word, width) ==
    [i \in 1..width |-> Base4Letter((word \div (BASE4_RADIX ^ (width - i))) % BASE4_RADIX)]

\* number_to_base4_letters: 4 letters (addresses)
number_to_base4_letters(value) == Base4Digits(value, 4)

\* A faulty number_to_base4_code: the buffer is filled from the left, so the
\* least significant digit comes first.  C19_WordRoundTrip fails under it.
number_to_base4_code_low_first(value) ==
    [i \in 1..5 |-> Base4Letter(((value % (TEN_BIT_MASK + 1)) \div (BASE4_RADIX ^ (i - 1)))
                                    % BASE4_RADIX)]

\* number_to_base4_code: 5 letters of the low 10 bits (machine words)
number_to_base4_code(value) == Base4Digits(value % (TEN_BIT_MASK + 1), 5)

\* the header fields of generate_object_file: leading 'a's removed, one letter kept
RECURSIVE StripLeadingA(_)
StripLeadingA(letters) ==
    IF Len(letters) > 1 /\ Head(letters) = "a" THEN StripLeadingA(Tail(letters))
    ELSE letters

\* generate_object_file: header, instruction lines, data lines.  A slot of the
\* image that the second pass never stored is read as it was allocated: garbage.
generate_object_file(instruction_count, data_count, ic_final_, dc_final_, instrs, dat, garbage) ==
    [header |-> <<StripLeadingA(number_to_base4_letters(ic_final_ - INITIAL_IC)),
                  StripLeadingA(number_to_base4_letters(dc_final_))>>,
     lines |->
        [i \in 1..instruction_count |->
            LET w == IF i <= Len(instrs) THEN instrs[i] ELSE garbage
            IN  <<number_to_base4_letters(w.address), number_to_base4_code(w.word)>>]
        \o
        [i \in 1..data_count |->
            LET w == IF i <= Len(dat) THEN dat[i] ELSE garbage
            IN  <<number_to_base4_letters(INITIAL_IC + instruction_count + i - 1),
                  number_to_base4_code(w.word)>>]]

\* the test of generate_entries_file for writing a node
IsEntryNode(node) ==
    \/ node.type = "ENTRY" /\ node.is_defined
    \/ /\ node.type = "DATA" /\ node.is_defined
       /\ node.name \in {EXAMPLE_LABEL_LENGTH, EXAMPLE_LABEL_LOOP}

RECURSIVE EntryLines(_)
EntryLines(t) ==
    IF t = <<>> THEN <<>>
    ELSE (IF IsEntryNode(Head(t))
          THEN <<<<Head(t).name, number_to_base4_letters(Head(t).address)>>>>
          ELSE <<>>) \o EntryLines(Tail(t))

\* generate_entries_file: no file unless some node of type LABEL_ENTRY is defined
generate_entries_file(t) ==
    IF \E i \in 1..Len(t) : t[i].type = "ENTRY" /\ t[i].is_defined
    THEN [written |-> TRUE, lines |-> EntryLines(t)]
    ELSE [written |-> FALSE, lines |-> <<>>]

\* generate_externals_file: no file when the list is empty; the list is
\* written from its head
generate_externals_file(list) ==
    IF list = <<>> THEN [written |-> FALSE, lines |-> <<>>]
    ELSE [written |-> TRUE,
          lines |-> [i \in 1..Len(list) |->
                        <<list[i].symbol_name, number_to_base4_letters(list[i].address)>>]]

-----------------------------------------------------------------------------
(* The pipeline of process_file (assembler.c) *)

\* values an unwritten slot of the memory image may hold
Garbage == {MachineWord(0, ARE_ABSOLUTE, 0), MachineWord(TEN_BIT_MASK, 3, 255)}

InitWith(programs) ==
    /\ src \in programs
    /\ pc = "macro"
    /\ am = <<>>
    /\ macro_failed = FALSE
    /\ table = <<>>
    /\ IC = INITIAL_IC
    /\ DC = INITIAL_DC
    /\ line_number = INITIAL_LINE_NUMBER
    /\ has_errors = FALSE
    /\ ic_final = 0
    /\ dc_final = 0
    /\ fp_trace = <<>>
    /\ current_ic = INITIAL_IC
    /\ instructions = <<>>
    /\ data = <<>>
    /\ ext_list = <<>>
    /\ sp_trace = <<>>
    /\ ob_file = [header |-> <<>>, lines |-> <<>>]
    /\ ent_file = <<>>
    /\ ext_file = <<>>
    /\ files_written = {}
    /\ result = "NONE"

\* process_file, phase 1: expand_macros writes the .am file; process_file does
\* not look at how it ended and opens the first pass on that file
ExpandMacros ==
    /\ pc = "macro"
    /\ LET r == expand_macros(src)
       IN  /\ am' = r.output
           /\ macro_failed' = r.failed
    /\ pc' = "first"
    /\ UNCHANGED <<src, table, IC, DC, line_number, has_errors, ic_final, dc_final,
                   fp_trace, current_ic, instructions, data, ext_list, sp_trace,
                   ob_file, ent_file, ext_file, files_written, result>>

\* one iteration of the reading loop of first_pass_on_table
FirstPassLine ==
    /\ pc = "first"
    /\ line_number <= Len(am)
    /\ LET line == am[line_number]
           r == process_line(line, table, IC, DC)
       IN  IF TooLong(line)
           THEN /\ has_errors' = TRUE
                /\ UNCHANGED <<table, IC, DC>>
           ELSE /\ has_errors' = (has_errors \/ ~r.ok)
                /\ table' = r.table
                /\ IC' = r.IC
                /\ DC' = r.DC
    /\ fp_trace' = Append(fp_trace, [IC |-> IC, DC |-> DC])
    /\ line_number' = line_number + 1
    /\ UNCHANGED <<src, pc, am, macro_failed, ic_final, dc_final, current_ic,
                   instructions, data, ext_list, sp_trace, ob_file, ent_file,
                   ext_file, files_written, result>>

\* the end of first_pass_on_table (rebasing, the counters handed back) and the
\* branch of process_file on its result: second_pass starts only on SUCCESS
FirstPassEnd ==
    /\ pc = "first"
    /\ line_number > Len(am)
    /\ table' = IF has_errors THEN table ELSE Rebase(table, IC)
    /\ ic_final' = IC
    /\ dc_final' = DC
    /\ IF has_errors
       THEN /\ result' = "FAILURE"
            /\ pc' = "done"
            /\ UNCHANGED <<line_number, has_errors>>
       ELSE /\ result' = result
            /\ pc' = "second_instr"
            /\ line_number' = 1
            /\ has_errors' = FALSE
    /\ UNCHANGED <<src, am, macro_failed, IC, DC, fp_trace, current_ic, instructions,
                   data, ext_list, sp_trace, ob_file, ent_file, ext_file, files_written>>

\* one iteration of the instruction loop of second_pass
SecondPassInstrLine ==
    /\ pc = "second_instr"
    /\ line_number <= Len(am)
    /\ LET line == am[line_number]
           parts == parse_line(line)
           r == encode_instruction(parts, table, current_ic, ext_list)
       IN  IF TooLong(line)
           THEN /\ has_errors' = TRUE
                /\ UNCHANGED <<current_ic, instructions, ext_list>>
           ELSE IF line.kind = "blank" \/ parts.null \/ is_valid_directive(parts.command)
           THEN UNCHANGED <<has_errors, current_ic, instructions, ext_list>>
           ELSE /\ has_errors' = (has_errors \/ ~r.ok)
                /\ ext_list' = r.ext_list
                /\ instructions' = CopyWords(instructions, r.words, ic_final - INITIAL_IC)
                /\ current_ic' = current_ic + Len(r.words)
    /\ sp_trace' = Append(sp_trace, current_ic)
    /\ line_number' = line_number + 1
    /\ UNCHANGED <<src, pc, am, macro_failed, table, IC, DC, ic_final, dc_final,
                   fp_trace, data, ob_file, ent_file, ext_file, files_written, result>>

\* rewind(file) between the two loops of second_pass
SecondPassRewind ==
    /\ pc = "second_instr"
    /\ line_number > Len(am)
    /\ pc' = "second_data"
    /\ line_number' = 1
    /\ UNCHANGED <<src, am, macro_failed, table, IC, DC, has_errors, ic_final,
                   dc_final, fp_trace, current_ic, instructions, data, ext_list,
                   sp_trace, ob_file, ent_file, ext_file, files_written, result>>

\* one iteration of the data loop of second_pass
SecondPassDataLine ==
    /\ pc = "second_data"
    /\ line_number <= Len(am)
    /\ LET line == am[line_number]
           parts == parse_line(line)
           r == process_data_line(parts, data)
       IN  IF line.kind = "blank" \/ parts.null
              \/ parts.command \notin {".data", ".string", ".mat"}
           THEN UNCHANGED <<has_errors, data>>
           ELSE /\ has_errors' = (has_errors \/ ~r.ok)
                /\ data' = r.data
    /\ line_number' = line_number + 1
    /\ UNCHANGED <<src, pc, am, macro_failed, table, IC, DC, ic_final, dc_final,
                   fp_trace, current_ic, instructions, ext_list, sp_trace, ob_file,
                   ent_file, ext_file, files_written, result>>

\* A faulty end of second_pass: the three files are written whether or not an
\* error was recorded.  C30_NoFilesOnError fails under it.
SecondPassEnd_writes_anyway ==
    /\ pc = "second_data"
    /\ line_number > Len(am)
    /\ \E garbage \in Garbage :
            LET ent == generate_entries_file(table)
                ext == generate_externals_file(ext_list)
            IN  /\ result' = IF has_errors THEN "FAILURE" ELSE "SUCCESS"
                /\ ob_file' = generate_object_file(ic_final - INITIAL_IC, dc_final,
                                                   ic_final, dc_final,
                                                   instructions, data, garbage)
                /\ ent_file' = ent.lines
                /\ ext_file' = ext.lines
                /\ files_written' = {"ob"} \cup (IF ent.written THEN {"ent"} ELSE {})
                                           \cup (IF ext.written THEN {"ext"} ELSE {})
    /\ pc' = "done"
    /\ UNCHANGED <<src, am, macro_failed, table, IC, DC, line_number, has_errors,
                   ic_final, dc_final, fp_trace, current_ic, instructions, data,
                   ext_list, sp_trace>>

\* the end of second_pass (the three files, when no error was recorded) and the
\* result of process_file
SecondPassEnd ==
    /\ pc = "second_data"
    /\ line_number > Len(am)
    /\ IF has_errors
       THEN /\ result' = "FAILURE"
            /\ UNCHANGED <<ob_file, ent_file, ext_file, files_written>>
       ELSE \E garbage \in Garbage :
            LET ent == generate_entries_file(table)
                ext == generate_externals_file(ext_list)
            IN  /\ result' = "SUCCESS"
                /\ ob_file' = generate_object_file(ic_final - INITIAL_IC, dc_final,
                                                   ic_final, dc_final,
                                                   instructions, data, garbage)
                /\ ent_file' = ent.lines
                /\ ext_file' = ext.lines
                /\ files_written' = {"ob"} \cup (IF ent.written THEN {"ent"} ELSE {})
                                           \cup (IF ext.written THEN {"ext"} ELSE {})
    /\ pc' = "done"
    /\ UNCHANGED <<src, am, macro_failed, table, IC, DC, line_number, has_errors,
                   ic_final, dc_final, fp_trace, current_ic, instructions, data,
                   ext_list, sp_trace>>

Next ==
    \/ ExpandMacros
    \/ FirstPassLine
    \/ FirstPassEnd
    \/ SecondPassInstrLine
    \/ SecondPassRewind
    \/ SecondPassDataLine
    \/ SecondPassEnd

-----------------------------------------------------------------------------
(* Programs: every sequence of at most MaxLines lines over an alphabet *)

SeqsUpTo(S, n) == UNION {[1..k -> S] : k \in 0..n}

\* labels, .entry, .extern and references to them
SymbolLines ==
    { Stmt("", ".entry", <<Sym("X")>>),
      Stmt("", ".extern", <<Sym("X")>>),
      Stmt("X", ".data", <<Num(5)>>),
      Stmt("X", ".data", <<>>),
      Stmt("Y", ".data", <<Num(7), Comma, Num(-1)>>),
      Stmt("X", "stop", <<>>),
      Stmt("", "stop", <<>>),
      Stmt("", "jmp", <<Sym("X")>>),
      Stmt("", "mov", <<Mat("X", 1, 2), Comma, Reg(1)>>) }

\* instructions: operand counts and addressing modes
InstructionLines ==
    { Stmt("", "mov", <<Reg(1), Comma, Reg(2)>>),
      Stmt("", "mov", <<Reg(1), Comma, Imm(5)>>),
      Stmt("", "mov", <<Reg(1), Comma, Reg(2), Comma, Reg(3)>>),
      Stmt("", "mov", <<Sym("X"), Comma, Reg(1)>>),
      Stmt("", "cmp", <<Imm(3), Comma, Mat("X", 1, 2)>>),
      Stmt("", "lea", <<Imm(1), Comma, Reg(2)>>),
      Stmt("", "jmp", <<Reg(1)>>),
      Stmt("", "inc", <<Reg(1), Comma, Reg(2)>>),
      Stmt("", "inc", <<>>),
      Stmt("", "stop", <<Reg(1)>>),
      Stmt("X", ".mat", <<Dims(1, 2)>>) }

\* macro definitions and calls
MacroLines ==
    { Mcro("m1"), Mcro("m2"), McroEnd, Word("m1"),
      Stmt("", "stop", <<>>),
      Stmt("X", "inc", <<Reg(1)>>),
      Stmt("", ".data", <<Num(5)>>),
      LongLine }

Init == InitWith(SeqsUpTo(SymbolLines, MaxLines))
Spec == Init /\ [][Next]_vars

InitInstructions == InitWith(SeqsUpTo(InstructionLines, MaxLines))
SpecInstructions == InitInstructions /\ [][Next]_vars

InitMacros == InitWith(SeqsUpTo(MacroLines, MaxLines))
SpecMacros == InitMacros /\ [][Next]_vars

\* label definitions of every kind, with .entry and .extern of the same names
LabelLines ==
    { Stmt("X", "stop", <<>>),
      Stmt("X", ".data", <<Num(5)>>),
      Stmt("X", ".string", <<Str(1)>>),
      Stmt("X", ".mat", <<Dims(1, 2)>>),
      Stmt("Y", "inc", <<Reg(1)>>),
      Stmt("Y", ".data", <<Num(7)>>),
      Stmt("", ".entry", <<Sym("X")>>),
      Stmt("", ".extern", <<Sym("X"), Comma, Sym("Y")>>),
      Stmt("", "jmp", <<Sym("Y")>>) }

InitLabels == InitWith(SeqsUpTo(LabelLines, MaxLines))
SpecLabels == InitLabels /\ [][Next]_vars

\* uses of external names by direct and matrix operands, in both slots
ExternalLines ==
    { Stmt("", ".extern", <<Sym("X")>>),
      Stmt("", ".extern", <<Sym("X"), Comma, Sym("Y")>>),
      Stmt("", "jmp", <<Sym("X")>>),
      Stmt("", "mov", <<Reg(1), Comma, Sym("Y")>>),
      Stmt("", "cmp", <<Sym("X"), Comma, Sym("X")>>),
      Stmt("", "mov", <<Mat("X", 1, 2), Comma, Mat("Y", 3, 4)>>),
      Stmt("", "mov", <<Sym("X"), Comma, Sym("Z")>>),
      Stmt("Y", ".data", <<Num(5)>>),
      Stmt("", "stop", <<>>) }

InitExternals == InitWith(SeqsUpTo(ExternalLines, MaxLines))
SpecExternals == InitExternals /\ [][Next]_vars

\* programs whose memory image passes the last address four letters can hold
SizeLines ==
    { Stmt("", "stop", <<>>),
      Stmt("", "mov", <<Reg(1), Comma, Reg(2)>>),
      Stmt("", "mov", <<Sym("X"), Comma, Mat("X", 1, 2)>>),
      Stmt("X", ".data", <<Num(7)>>),
      Stmt("", ".string", <<Str(2)>>),
      Stmt("", ".mat", <<Dims(13, 12)>>) }

InitSizes == InitWith(SeqsUpTo(SizeLines, MaxLines))
SpecSizes == InitSizes /\ [][Next]_vars

\* zero-operand instructions on lines of 20, 79, 80 and 81 characters
StmtOfLength(command, len) == Line("stmt", "", command, <<>>, "", len)
LengthLines ==
    {StmtOfLength(command, len) :
        command \in {"stop", "rts"},
        len \in {20, MAX_LINE_LENGTH - 2, MAX_LINE_LENGTH - 1, MAX_LINE_LENGTH}}

InitLengths == InitWith(SeqsUpTo(LengthLines, MaxLines))
SpecLengths == InitLengths /\ [][Next]_vars

\* operand lists with a trailing or a doubled comma, for every kind of command
CommaLines ==
    { Stmt("", ".data", <<Num(7), Comma>>),
      Stmt("", ".data", <<Num(1), Comma, Comma, Num(2)>>),
      Stmt("", ".extern", <<Sym("X"), Comma>>),
      Stmt("", ".entry", <<Sym("X"), Comma, Comma, Sym("Y")>>),
      Stmt("", "stop", <<Comma>>),
      Stmt("", "mov", <<Reg(1), Comma, Reg(2), Comma>>),
      Stmt("", "inc", <<Reg(1), Comma, Comma>>),
      Stmt("X", ".data", <<Num(7), Comma, Num(-1)>>),
      Stmt("", "mov", <<Reg(1), Comma, Reg(2)>>),
      Stmt("", "stop", <<>>) }

InitCommas == InitWith(SeqsUpTo(CommaLines, MaxLines))
SpecCommas == InitCommas /\ [][Next]_vars

\* the worked example of an immediate source with a register destination, a
\* labelled .data line and stop, with lines that vary it
ScenarioLines ==
    { Stmt("", "mov", <<Imm(5), Comma, Reg(1)>>),
      Stmt("LEN", ".data", <<Num(7), Comma, Num(-1)>>),
      Stmt("", "stop", <<>>),
      Stmt("", "mov", <<Reg(2), Comma, Reg(1)>>),
      Stmt("", ".entry", <<Sym("LEN")>>),
      Stmt("", "jmp", <<Sym("LEN")>>) }

InitScenarios == InitWith(SeqsUpTo(ScenarioLines, MaxLines))
SpecScenarios == InitScenarios /\ [][Next]_vars

\* one-line programs that store every 10-bit value as a data word, and
\* every 8-bit immediate as an operand word
WordPrograms ==
    { <<Stmt("", ".data", <<Num(v)>>)>> : v \in 0..TEN_BIT_MASK }
        \cup { <<Stmt("", "prn", <<Imm(v)>>)>> : v \in 0..EIGHT_BIT_MASK }

InitWords == InitWith(WordPrograms)
SpecWords == InitWords /\ [][Next]_vars

\* .entry directives and definitions, with a data label of each of the two
\* names generate_entries_file knows
EntryFileLines ==
    { Stmt("", ".entry", <<Sym("X")>>),
      Stmt("", ".entry", <<Sym(EXAMPLE_LABEL_LENGTH)>>),
      Stmt("X", "stop", <<>>),
      Stmt("X", ".data", <<Num(5)>>),
      Stmt("Y", ".data", <<Num(7)>>),
      Stmt(EXAMPLE_LABEL_LENGTH, ".data", <<Num(5)>>),
      Stmt(EXAMPLE_LABEL_LOOP, ".data", <<Num(7)>>),
      Stmt(EXAMPLE_LABEL_LOOP, "stop", <<>>) }

InitEntries == InitWith(SeqsUpTo(EntryFileLines, MaxLines))
SpecEntries == InitEntries /\ [][Next]_vars

\* the most lines of a program of instructions in every addressing mode
MaxInstr == 2

\* one operand in each addressing mode
ModeOperands == { Imm(5), Sym("X"), Mat("X", 1, 2), Reg(1) }

\* a zero-operand opcode, bare and labelled, moves between two registers, a
\* one-operand opcode with every mode, and a two-operand opcode with every
\* pair of modes
ModeLines ==
    { Stmt("", "stop", <<>>), Stmt("X", "stop", <<>>) }
        \cup { Stmt("", "mov", <<Reg(1), Comma, Reg(2)>>),
               Stmt("", "mov", <<Reg(7), Comma, Reg(3)>>) }
        \cup { Stmt("", "prn", <<op>>) : op \in ModeOperands }
        \cup { Stmt("", "cmp", <<op1, Comma, op2>>) : op1 \in ModeOperands, op2 \in ModeOperands }

InitModes == InitWith(SeqsUpTo(ModeLines, MaxInstr))
SpecModes == InitModes /\ [][Next]_vars

\* the most lines before, inside and after a macro definition
MaxCalls == 2

\* lines around a definition: a call, an ordinary line, a word that names no macro
CallLines == { Word("m1"), Stmt("", "stop", <<>>), Word("m2") }
BlockLines == { Stmt("", "stop", <<>>), Stmt("X", "inc", <<Reg(1)>>) }

\* one definition of m1 with lines before and after it, and the short
\* programs of MacroLines (definitions in a definition, mcroend alone)
EmissionPrograms ==
    { before \o <<Mcro("m1")>> \o body \o <<McroEnd>> \o after :
        before \in SeqsUpTo(CallLines, MaxCalls),
        body \in SeqsUpTo(BlockLines, MaxCalls),
        after \in SeqsUpTo(CallLines, MaxCalls) }
        \cup SeqsUpTo(MacroLines, MaxLines)

InitEmission == InitWith(EmissionPrograms)
SpecEmission == InitEmission /\ [][Next]_vars

\* the most lines a macro body of the programs below can hold
MaxBodyLines == 13

\* a macro of up to MaxBodyLines lines of the greatest accepted length,
\* followed or not by a short line, and one call of the macro
BodyPrograms ==
    { <<Mcro("m1")>>
        \o [k \in 1..n |-> StmtOfLength("stop", MAX_LINE_LENGTH - 2)]
        \o short
        \o <<McroEnd, Word("m1")>> :
            n \in 0..MaxBodyLines, short \in {<<>>, <<StmtOfLength("rts", 3)>>} }

InitBodies == InitWith(BodyPrograms)
SpecBodies == InitBodies /\ [][Next]_vars

-----------------------------------------------------------------------------
(* What the expanded source says, line by line *)

Parts(i) == parse_line(am[i])

\* the names the operands of the lines of a directive give
DirectiveNames(directive) ==
    UNION {{OperandName(Parts(i).operands[k]) : k \in 1..Len(Parts(i).operands)} :
              i \in {j \in 1..Len(am) : Parts(j).command = directive}}
        \ {NotALabel}

EntryNames == DirectiveNames(".entry")
ExternNames == DirectiveNames(".extern")

DataDirectives == {".data", ".string", ".mat"}

\* the lines that define name: it is their label, and they are an instruction
\* or a data directive
DefinitionLines(name) ==
    {i \in 1..Len(am) : /\ ~Parts(i).null
                        /\ Parts(i).label = name
                        /\ Parts(i).command \notin {".entry", ".extern"}}

\* the final address of a locally defined name: IC at its definition for a code
\* label, IC_final + DC at its definition for a data label
FinalAddress(name) ==
    LET i == CHOOSE j \in DefinitionLines(name) : TRUE
    IN  IF Parts(i).command \in DataDirectives
        THEN ic_final + fp_trace[i].DC
        ELSE fp_trace[i].IC

\* the names the encoded operands of the instruction lines refer to
ReferencedNames ==
    UNION {{Parts(i).operands[k].name :
               k \in {m \in 1..Len(Parts(i).operands) :
                         /\ m <= get_instruction(Parts(i).command).num_of_operands
                         /\ Parts(i).operands[m].t \in {"sym", "mat"}}} :
              i \in {j \in 1..Len(am) : is_valid_opcode(Parts(j).command)}}

\* the operand count is the opcode's, and a slot holds a mode the instruction
\* table does not permit there
IllegalMode(parts) ==
    /\ is_valid_opcode(parts.command)
    /\ LET inst == get_instruction(parts.command)
       IN  /\ Len(parts.operands) = inst.num_of_operands
           /\ \A k \in 1..Len(parts.operands) : get_operand_mode(parts.operands[k]) # 0
           /\ \/ /\ inst.num_of_operands = SINGLE_OPERAND
                 /\ OperandMode(parts, 1) \notin inst.destination_mode
              \/ /\ inst.num_of_operands = DOUBLE_OPERAND
                 /\ \/ OperandMode(parts, 1) \notin inst.source_mode
                    \/ OperandMode(parts, 2) \notin inst.destination_mode

\* the line carries more operands than the opcode takes
TooManyOperands(parts) ==
    /\ is_valid_opcode(parts.command)
    /\ Len(parts.operands) > get_instruction(parts.command).num_of_operands

-----------------------------------------------------------------------------
(* Claims *)

\* C1: for every symbol named in a .entry directive and defined locally, the
\* address written for it in the entries file is its final address: IC at its
\* definition for a code label, IC_final + DC at its definition for a data
\* label.  Refuted: ".entry X" before "X: .data 5" leaves the node of type
\* LABEL_ENTRY, which the rebasing loop skips, so the file holds the bare DC.
C1_EntryAddressIsFinal ==
    result = "SUCCESS" =>
        \A k \in 1..Len(ent_file) :
            LET name == ent_file[k][1]
            IN  (name \in EntryNames /\ DefinitionLines(name) # {}) =>
                    ent_file[k][2] = number_to_base4_letters(FinalAddress(name))

\* C2: a symbol named in a .entry directive and defined in the file appears in
\* the entries file, whatever its kind, its name and the order of the two
\* lines.  Refuted: ".entry X" after "X: .data 5" keeps the type LABEL_DATA and
\* generate_entries_file writes LABEL_DATA nodes only for two fixed names.
C2_EntryDefinedAppears ==
    result = "SUCCESS" =>
        \A name \in EntryNames :
            DefinitionLines(name) # {} =>
                /\ "ent" \in files_written
                /\ \E k \in 1..Len(ent_file) : ent_file[k][1] = name

\* C3: when an instruction refers, by a direct or a matrix operand, to a name
\* that has no local definition and is not declared by .extern, the pipeline
\* ends in failure.  Refuted: a name that only a .entry directive names is
\* found by find_label and encoded as a relocatable word of address 0.
C3_UndefinedReferenceFails ==
    (/\ pc = "done"
     /\ \E name \in ReferencedNames :
            DefinitionLines(name) = {} /\ name \notin ExternNames)
        => result = "FAILURE"

\* C4: once macro expansion has failed, nothing more happens for the file but
\* the report of its failure: no pass runs and no file is written.  Refuted:
\* process_file does not look at how expand_macros ended.
C4_MacroFailureAborts ==
    (macro_failed /\ pc # "macro") =>
        pc = "done" /\ result = "FAILURE" /\ files_written = {}

\* C5: for every program both passes accept, the second pass stores
\* IC_final - 100 instruction words and DC_final data words; its address
\* counter ends at IC_final, so no encoded word was dropped by the copy guard.
C5_ImageCounts ==
    result = "SUCCESS" =>
        /\ Len(instructions) = ic_final - INITIAL_IC
        /\ current_ic = ic_final
        /\ Len(data) = dc_final

\* an accepted program with several instruction words, a shared register
\* word among them, and data words
C5_Witness ==
    /\ result = "SUCCESS"
    /\ Len(instructions) >= 4
    /\ Len(data) >= 2
    /\ \E i \in 1..Len(am) :
           Parts(i).command = "mov" /\ Len(Parts(i).operands) >= 2
           /\ Parts(i).operands[1].t = "reg" /\ Parts(i).operands[2].t = "reg"

\* C6: after a first pass without errors every symbol of kind Data has
\* 100 + instruction_count <= address < 100 + instruction_count + data_count.
\* Refuted: a labelled .data line with no operands is accepted and its label
\* sits at the end of the data image.
C6_DataSymbolRange ==
    pc \in {"second_instr", "second_data"} =>
        \A i \in 1..Len(table) :
            table[i].type = "DATA" =>
                /\ INITIAL_IC + (ic_final - INITIAL_IC) <= table[i].address
                /\ table[i].address < INITIAL_IC + (ic_final - INITIAL_IC) + dc_final

\* C7: after the first pass completes, with or without errors, every symbol
\* of kind Code has 100 <= address < 100 + (IC_final - 100).
C7_CodeSymbolRange ==
    pc \in {"second_instr", "second_data", "done"} =>
        \A i \in 1..Len(table) :
            table[i].type = "CODE" =>
                /\ INITIAL_IC <= table[i].address
                /\ table[i].address < INITIAL_IC + (ic_final - INITIAL_IC)

\* the first pass has completed with a code label that is not on the first
\* instruction, and one on the last instruction
C7_Witness ==
    /\ pc = "second_instr"
    /\ \E i \in 1..Len(table) :
           /\ table[i].type = "CODE"
           /\ table[i].address > INITIAL_IC
           /\ table[i].address = ic_final - 1

\* C8: a name both declared by .extern and defined as a local label makes the
\* first pass fail, in either order.  Refuted: after ".extern X" the node is
\* undefined, and define_label turns it into the local label.
C8_ExternAndLocalFails ==
    (\E name \in ExternNames : DefinitionLines(name) # {}) =>
        pc \notin {"second_instr", "second_data"} /\ result # "SUCCESS"

\* C9: an instruction with an operand in a mode the instruction table does not
\* permit for its slot makes the pipeline fail, and no object file is written.
\* Refuted: neither pass consults the permitted modes.
C9_IllegalModeFails ==
    (pc = "done" /\ \E i \in 1..Len(am) : IllegalMode(Parts(i))) =>
        result = "FAILURE" /\ "ob" \notin files_written

\* C10: an instruction line with more operands than its opcode takes is
\* rejected by the pipeline.  Refuted: both passes read the operands the
\* opcode takes and ignore the rest.
C10_TooManyOperandsFails ==
    (pc = "done" /\ \E i \in 1..Len(am) : TooManyOperands(Parts(i))) =>
        result = "FAILURE"

\* the labels the lines of the expanded source carry
LabelNames == {Parts(i).label : i \in 1..Len(am)} \ {""}

\* C11: when the same label is defined on two lines (instruction, .data,
\* .string or .mat lines in any mix), the first pass fails, the second pass is
\* not run and no output file is written.
C11_DuplicateLabelFails ==
    \A name \in LabelNames :
        Cardinality(DefinitionLines(name)) >= 2 =>
            /\ pc \notin {"second_instr", "second_data"}
            /\ sp_trace = <<>>
            /\ files_written = {}
            /\ pc = "done" => result = "FAILURE"

\* the pipeline has ended on a file that defines X by an instruction line and
\* again by a data directive
C11_Witness ==
    /\ pc = "done"
    /\ result = "FAILURE"
    /\ \E i, j \in DefinitionLines("X") :
           /\ i < j
           /\ Parts(i).command = "stop"
           /\ Parts(j).command \in DataDirectives

\* C12: whatever label definitions, .extern and .entry directives the first
\* pass has processed, no two nodes of the symbol table share a name.
C12_UniqueNames ==
    \A i, j \in 1..Len(table) : table[i].name = table[j].name => i = j

\* the table holds two names, one of them reached by a definition, a .entry
\* and a .extern line
C12_Witness ==
    /\ Len(table) = 2
    /\ \E i \in 1..Len(am) : Parts(i).command = ".entry"
    /\ \E i \in 1..Len(am) : Parts(i).command = ".extern"
    /\ DefinitionLines("X") # {}
    /\ pc = "second_instr"

-----------------------------------------------------------------------------
(* Reading the base-4 letters back: a = 0, b = 1, c = 2, d = 3, most *)
(* significant digit first                                            *)

LetterValue(c) == CHOOSE d \in 0..(BASE4_RADIX - 1) : Base4Letter(d) = c

RECURSIVE DecodeBase4(_)
DecodeBase4(letters) ==
    IF letters = <<>> THEN 0
    ELSE DecodeBase4(SubSeq(letters, 1, Len(letters) - 1)) * BASE4_RADIX
            + LetterValue(letters[Len(letters)])

C15_AddressesContiguous ==
    "ob" \in files_written =>
        \A k \in 1..Len(ob_file.lines) :
            DecodeBase4(ob_file.lines[k][1]) = INITIAL_IC + k - 1

\* C16: a line of exactly 80 characters is accepted and assembled, and a line
\* of 81 characters makes the file fail (stated for programs of zero-operand
\* instructions, each of which is accepted on a short line).  Refuted: fgets
\* hands the readers 80 characters without the newline, so the 80-character
\* line is refused as too long; and the refusal, made by expand_macros, does
\* not make the file fail.
C16_LineLengthLimit ==
    (/\ pc = "done"
     /\ \A i \in 1..Len(src) :
            /\ src[i].kind = "stmt" /\ src[i].label = "" /\ src[i].tokens = <<>>
            /\ is_valid_opcode(src[i].command)
            /\ get_instruction(src[i].command).num_of_operands = NO_OPERANDS)
        => IF \E i \in 1..Len(src) : src[i].len >= MAX_LINE_LENGTH
           THEN result = "FAILURE"
           ELSE result = "SUCCESS" /\ ic_final = INITIAL_IC + Len(src)

\* a trailing comma, or two commas in a row, in the operand list
CommaError(tokens) ==
    \/ tokens # <<>> /\ tokens[Len(tokens)] = Comma
    \/ \E k \in 1..(Len(tokens) - 1) : tokens[k] = Comma /\ tokens[k + 1] = Comma

\* C17: a line whose operand list has a trailing comma or two consecutive
\* commas makes the pipeline fail, whatever its command.  Refuted: parse_line
\* keeps the line with no operands when extract_operands refuses the list, and
\* .data, .extern, .entry and the zero-operand opcodes accept no operands.
C17_CommaErrorFails ==
    (pc = "done" /\ \E i \in 1..Len(am) :
                       am[i].kind = "stmt" /\ CommaError(am[i].tokens))
        => result = "FAILURE"

\* 'mov #5, r1' / 'LEN: .data 7, -1' / 'stop'
ScenarioB ==
    << Stmt("", "mov", <<Imm(5), Comma, Reg(1)>>),
       Stmt("LEN", ".data", <<Num(7), Comma, Num(-1)>>),
       Stmt("", "stop", <<>>) >>

\* the object file has n lines at the addresses first, first + 1, ...
ObjectLinesFrom(first, n) ==
    /\ Len(ob_file.lines) = n
    /\ \A k \in 1..n : DecodeBase4(ob_file.lines[k][1]) = first + k - 1

\* C18 as stated: the three-line program gives IC_final = 103 and
\* DC_final = 2, LEN is rebased from 0 to 103, and the object file has 3
\* instruction lines at 100..102 followed by 2 data lines at 103..104.
\* Refuted: mov with an immediate source and a register destination takes
\* three words, not two.
C18_ScenarioB_AsStated ==
    (src = ScenarioB /\ pc = "done") =>
        /\ ic_final = 103 /\ dc_final = 2
        /\ fp_trace[2].DC = 0
        /\ \E i \in 1..Len(table) : table[i].name = "LEN" /\ table[i].address = 103
        /\ Len(instructions) = 3 /\ Len(data) = 2
        /\ ObjectLinesFrom(INITIAL_IC, 5)

\* C18: the three-line program assembles; it gives IC_final = 104 and
\* DC_final = 2, LEN is rebased from 0 to 104, and the object file has 4
\* instruction lines at 100..103 followed by 2 data lines at 104..105.
C18_ScenarioB ==
    (src = ScenarioB /\ pc = "done") =>
        /\ result = "SUCCESS"
        /\ ic_final = 104 /\ dc_final = 2
        /\ fp_trace[2].DC = 0
        /\ \E i \in 1..Len(table) : table[i].name = "LEN" /\ table[i].address = 104
        /\ Len(instructions) = 4 /\ Len(data) = 2
        /\ ObjectLinesFrom(INITIAL_IC, 6)
        /\ ob_file.header = << <<"b", "a">>, <<"c">> >>

C18_Witness ==
    /\ src = ScenarioB /\ pc = "done" /\ "ob" \in files_written
    /\ Len(ob_file.lines) = 6

\* the memory image in the order generate_object_file writes it
ImageWords == instructions \o data

\* C19: decoding the five letters produced for a value gives back its low 10
\* bits, for every value 0..1023 a program stores; and every word line of the
\* object file decodes to the low 10 bits of the word stored in the image.
C19_WordRoundTrip ==
    /\ \A i \in 1..Len(src) : \A k \in 1..Len(src[i].tokens) :
           src[i].tokens[k].t \in {"num", "imm"} =>
               /\ src[i].tokens[k].v \in 0..TEN_BIT_MASK
               /\ DecodeBase4(number_to_base4_code(src[i].tokens[k].v)) = src[i].tokens[k].v
    /\ "ob" \in files_written =>
           /\ Len(ob_file.lines) = Len(ImageWords)
           /\ \A k \in 1..Len(ob_file.lines) :
                  DecodeBase4(ob_file.lines[k][2]) = ImageWords[k].word % (TEN_BIT_MASK + 1)

C19_Witness ==
    /\ "ob" \in files_written
    /\ Len(data) = 1 /\ data[1].word = TEN_BIT_MASK - 1
    /\ ob_file.lines[1][2] = <<"d", "d", "d", "d", "c">>

\* C20 as stated: each pass reads every line whatever errors it meets, and a
\* pass that recorded an error makes the file fail.  Refuted: expand_macros
\* returns at its first erroneous line, and returns nothing, so the file is
\* processed as if the expansion had succeeded.
C20_PassesScanEveryLine ==
    /\ pc # "macro" => expand_macros(src).line_number = Len(src)
    /\ pc \notin {"macro", "first"} => Len(fp_trace) = Len(am)
    /\ (pc = "second_data" \/ (pc = "done" /\ sp_trace # <<>>)) => Len(sp_trace) = Len(am)
    /\ (pc = "done" /\ (macro_failed \/ has_errors)) => result = "FAILURE"

\* the macro table the collection loop of expand_macros has built when the
\* loop ends
collect_macros(input) ==
    CollectLoop(input, [macro_list |-> <<>>, in_def |-> FALSE, name |-> "",
                        content |-> <<>>, content_length |-> 0, line_number |-> 0])

\* line i opens a definition block: it is a macro start and no earlier macro
\* start is still waiting for its mcroend
OpensBlock(input, i) ==
    /\ check_if_macro_start(input[i])
    /\ \A k \in 1..(i - 1) :
           check_if_macro_start(input[k]) =>
               \E m \in (k + 1)..(i - 1) : check_if_macro_end(input[m])

\* line j is the first mcroend after line i
ClosesBlock(input, i, j) ==
    /\ i < j
    /\ check_if_macro_end(input[j])
    /\ \A k \in (i + 1)..(j - 1) : ~check_if_macro_end(input[k])

\* C21 as stated: from a valid 'mcro NAME' line to the next 'mcroend', every
\* line is appended in order to NAME's body, a line beginning with 'mcro'
\* included, and at 'mcroend' NAME is committed with exactly those lines.
\* Refuted: a macro start inside a block restarts the collection under the
\* new name with an empty body, and the first name is never committed.
C21_BodyIsBlock ==
    (pc # "macro" /\ ~collect_macros(src).failed) =>
        \A i \in 1..Len(src) : \A j \in 1..Len(src) :
            (OpensBlock(src, i) /\ ClosesBlock(src, i, j)) =>
                LET macro_list == collect_macros(src).macro_list
                    found == find_macro(macro_list, src[i].name)
                IN  /\ found # 0
                    /\ macro_list[found].content = SubSeq(src, i + 1, j - 1)

\* the characters strcat would copy for these lines
RECURSIVE BodySize(_)
BodySize(lines) == IF lines = <<>> THEN 0 ELSE StrLen(Head(lines)) + BodySize(Tail(lines))

\* C22 as stated: when the body of a macro exceeds MAX_MACRO_BODY characters
\* macro expansion fails, and a body is never committed or emitted with lines
\* missing.  Refuted: the collection loop skips a line that does not fit
\* without reporting it, and goes on appending the shorter lines that follow.
C22_BodyLimitFails ==
    pc # "macro" =>
        \A i \in 1..Len(src) : \A j \in 1..Len(src) :
            (/\ OpensBlock(src, i) /\ ClosesBlock(src, i, j)
             /\ \A k \in (i + 1)..(j - 1) : ~check_if_macro_start(src[k])) =>
                LET body == SubSeq(src, i + 1, j - 1)
                    macro_list == collect_macros(src).macro_list
                    found == find_macro(macro_list, src[i].name)
                IN  /\ BodySize(body) > MAX_MACRO_BODY => macro_failed
                    /\ ~macro_failed =>
                           /\ found # 0
                           /\ macro_list[found].content = body
                           /\ \A k \in 1..Len(src) :
                                  (k > j /\ src[k] = Word(src[i].name)) =>
                                      \E m \in 0..(Len(am) - Len(body)) :
                                          SubSeq(am, m + 1, m + Len(body)) = body

\* line i is a delimiter or lies in a definition block: a macro start at or
\* above it is not yet followed by an mcroend
Suppressed(input, i) ==
    \/ check_if_macro_end(input[i])
    \/ \E k \in 1..i :
           /\ check_if_macro_start(input[k])
           /\ \A m \in (k + 1)..(i - 1) : ~check_if_macro_end(input[m])

\* what line i contributes to the expanded source
Emitted(input, macro_list, i) ==
    IF Suppressed(input, i) THEN <<>>
    ELSE IF input[i].kind = "word" /\ find_macro(macro_list, input[i].name) # 0
    THEN macro_list[find_macro(macro_list, input[i].name)].content
    ELSE <<input[i]>>

RECURSIVE EmittedUpTo(_, _, _)
EmittedUpTo(input, macro_list, n) ==
    IF n = 0 THEN <<>>
    ELSE EmittedUpTo(input, macro_list, n - 1) \o Emitted(input, macro_list, n)

\* C23: when the collection pass succeeds, the expanded source is the source
\* with every line outside a definition block replaced by the body of the
\* macro its first word names, or kept when it names none, and with the
\* mcro and mcroend lines and the lines between them left out; the macros
\* are those of the whole file, so a call above the definition is expanded.
C23_Emission ==
    (pc # "macro" /\ ~macro_failed) =>
        am = EmittedUpTo(src, collect_macros(src).macro_list, Len(src))

\* a call above the definition, a copied line, and a call below it
C23_Witness ==
    /\ pc = "done" /\ ~macro_failed
    /\ src = << Word("m1"), Word("m2"), Mcro("m1"), Stmt("X", "inc", <<Reg(1)>>),
                Stmt("", "stop", <<>>), McroEnd, Word("m1") >>
    /\ am = << Stmt("X", "inc", <<Reg(1)>>), Stmt("", "stop", <<>>), Word("m2"),
               Stmt("X", "inc", <<Reg(1)>>), Stmt("", "stop", <<>>) >>

\* IC after the first pass has processed line k
ICAfter(k) == IF k < Len(fp_trace) THEN fp_trace[k + 1].IC ELSE IC

\* line k is an instruction with as many operands as its opcode takes, each
\* in a mode get_operand_mode knows, and its label, if any, is not defined above
WellFormedInstruction(k) ==
    /\ am[k].kind = "stmt"
    /\ is_valid_opcode(Parts(k).command)
    /\ Len(Parts(k).operands) = get_instruction(Parts(k).command).num_of_operands
    /\ \A n \in 1..Len(Parts(k).operands) : OperandMode(Parts(k), n) # 0
    /\ Parts(k).label # "" => \A j \in 1..(k - 1) : Parts(j).label # Parts(k).label

OperandCost(mode) == IF mode = MATRIX_ACCESS THEN 2 ELSE 1

\* C24: the first pass adds to IC, for an instruction, 1 for a zero-operand
\* opcode, 1 + cost(operand) for a one-operand opcode, and for a two-operand
\* opcode 2 when both operands are registers, otherwise
\* 1 + cost(source) + cost(destination); cost is 2 for a matrix and 1 for
\* every other mode.
C24_WordsAdded ==
    \A k \in 1..Len(fp_trace) :
        WellFormedInstruction(k) =>
            LET parts == Parts(k)
                operands == get_instruction(parts.command).num_of_operands
                added == ICAfter(k) - fp_trace[k].IC
            IN  /\ operands = NO_OPERANDS => added = 1
                /\ operands = SINGLE_OPERAND => added = 1 + OperandCost(OperandMode(parts, 1))
                /\ operands = DOUBLE_OPERAND =>
                       IF OperandMode(parts, 1) = REGISTER /\ OperandMode(parts, 2) = REGISTER
                       THEN added = 2
                       ELSE added = 1 + OperandCost(OperandMode(parts, 1))
                                      + OperandCost(OperandMode(parts, 2))

\* two matrices, five words, then two registers, two words
C24_Witness ==
    /\ pc = "done"
    /\ src = << Stmt("", "cmp", <<Mat("X", 1, 2), Comma, Mat("X", 1, 2)>>),
                Stmt("", "cmp", <<Reg(1), Comma, Reg(1)>>) >>
    /\ fp_trace[2].IC = INITIAL_IC + 5
    /\ ic_final = INITIAL_IC + 7

\* current_ic after the instruction loop of the second pass has processed line k
CurrentICAfter(k) == IF k < Len(sp_trace) THEN sp_trace[k + 1] ELSE current_ic

\* the word of the image at an address
ImageAt(address) == instructions[address - INITIAL_IC + 1]

\* C25: for a two-operand instruction the second pass encodes, the operands
\* share one word exactly when both are registers: the instruction then has 2
\* words, the second holding the first register in bits 6..9, the second
\* register in bits 2..5 and ARE = A in bits 0..1; otherwise each operand has
\* its own word, or two words for a matrix.
C25_PackedRegisters ==
    \A k \in 1..Len(sp_trace) :
        (/\ WellFormedInstruction(k)
         /\ get_instruction(Parts(k).command).num_of_operands = DOUBLE_OPERAND
         /\ encode_instruction(Parts(k), table, sp_trace[k], <<>>).ok) =>
            LET parts == Parts(k)
                emitted == CurrentICAfter(k) - sp_trace[k]
                packed == ImageAt(sp_trace[k] + 1)
            IN  IF OperandMode(parts, 1) = REGISTER /\ OperandMode(parts, 2) = REGISTER
                THEN /\ emitted = 2
                     /\ packed.address = sp_trace[k] + 1
                     /\ (packed.word \div 64) % 16 = parts.operands[1].r1
                     /\ (packed.word \div 4) % 16 = parts.operands[2].r1
                     /\ packed.word % 4 = ARE_ABSOLUTE
                     /\ packed.word < TEN_BIT_MASK + 1
                ELSE emitted = 1 + OperandCost(OperandMode(parts, 1))
                                 + OperandCost(OperandMode(parts, 2))

\* 'mov r7, r3' assembled to two words, the second 0111 0011 00
C25_Witness ==
    /\ result = "SUCCESS"
    /\ src = << Stmt("", "mov", <<Reg(7), Comma, Reg(3)>>) >>
    /\ Len(instructions) = 2
    /\ instructions[2].word = 7 * 64 + 3 * 4

\* the step that ends the first pass
EndOfFirstPass == pc = "first" /\ pc' # "first"

\* C26: the end of a first pass without errors adds IC_final once to the
\* address of every defined symbol whose kind in the table is Data, and
\* changes no other address, no kind and no defined flag; after an error it
\* changes no address.
C26_RebasingFrame ==
    [][EndOfFirstPass =>
        /\ Len(table') = Len(table)
        /\ \A i \in 1..Len(table) :
               /\ table'[i].name = table[i].name
               /\ table'[i].type = table[i].type
               /\ table'[i].is_defined = table[i].is_defined
               /\ table'[i].address =
                      IF ~has_errors /\ table[i].is_defined /\ table[i].type = "DATA"
                      THEN table[i].address + ic_final'
                      ELSE table[i].address]_vars

\* 'X: stop' / 'Y: .data 7, -1' after the first pass: Y moved from 0 to 101,
\* X left at 100
C26_Witness ==
    /\ pc = "second_instr" /\ sp_trace = <<>>
    /\ ic_final = INITIAL_IC + 1
    /\ Len(fp_trace) = 2 /\ fp_trace[2].DC = 0
    /\ \E i \in 1..Len(table) :
           /\ table[i].name = "Y" /\ table[i].type = "DATA" /\ table[i].is_defined
           /\ table[i].address = INITIAL_IC + 1
    /\ \E i \in 1..Len(table) :
           /\ table[i].name = "X" /\ table[i].type = "CODE" /\ table[i].is_defined
           /\ table[i].address = INITIAL_IC

\* C27: in every state of the first pass and after it, a symbol whose kind is
\* External has address 0 and is not marked defined.
C27_ExternalShape ==
    \A i \in 1..Len(table) :
        table[i].type = "EXTERNAL" => table[i].address = 0 /\ ~table[i].is_defined

\* '.extern X, Y' then 'X: stop', in the first pass: Y is still External, and
\* X, now defined, is no longer of that kind
C27_Witness ==
    /\ pc = "first" /\ line_number = 3
    /\ am[1] = Stmt("", ".extern", <<Sym("X"), Comma, Sym("Y")>>)
    /\ am[2] = Stmt("X", "stop", <<>>)
    /\ \E i \in 1..Len(table) :
           table[i].name = "Y" /\ table[i].type = "EXTERNAL" /\ table[i].address = 0
    /\ \E i \in 1..Len(table) :
           table[i].name = "X" /\ table[i].type = "CODE" /\ table[i].is_defined

\* line k is one the instruction loop of the second pass encodes
InstructionLine(k) ==
    /\ ~TooLong(am[k])
    /\ am[k].kind # "blank"
    /\ ~Parts(k).null
    /\ ~is_valid_directive(Parts(k).command)

\* the first pass accepted the expanded source
FirstPassAccepted == pc \in {"second_instr", "second_data"} \/ (pc = "done" /\ sp_trace # <<>>)

C29_OnlyEntryNames ==
    "ent" \in files_written =>
        \A k \in 1..Len(ent_file) : ent_file[k][1] \in EntryNames

\* C30: no file is written while the second pass walks the lines; a second
\* pass that recorded an error writes none of the three files and the
\* pipeline fails; files exist only after both walks finished without error.
C30_NoFilesOnError ==
    /\ pc # "done" => files_written = {}
    /\ (pc = "done" /\ has_errors) => files_written = {} /\ result = "FAILURE"
    /\ files_written # {} =>
           /\ pc = "done" /\ ~has_errors /\ result = "SUCCESS"
           /\ Len(sp_trace) = Len(am)
           /\ "ob" \in files_written

\* the second pass met a reference it could not resolve and ended
C30_Witness ==
    /\ pc = "done" /\ has_errors
    /\ Len(am) > 0 /\ Len(sp_trace) = Len(am)
    /\ \E k \in 1..Len(am) :
           /\ InstructionLine(k)
           /\ ~encode_instruction(Parts(k), table, sp_trace[k], <<>>).ok
    /\ files_written = {} /\ result = "FAILURE"

====
